---- MODULE Spec2Model ----
(***************************************************************************)
(* Model of streamlit_app.py (Institutional Discovery Terminal).           *)
(*                                                                         *)
(* Four parts of the script are modelled, each with its own specification: *)
(*   SpecFeed   get_combined_intelligence and the data prep feeding it     *)
(*   SpecStore  the sidebar: portfolio load, add ticker, remove ticker     *)
(*   SpecVal    the valuation block of the analysis of a selected ticker   *)
(*   SpecEarn   the earnings-date resolution behind HARDCODED_DATES         *)
(*                                                                         *)
(* Python strings that the code slices, searches or compares are modelled  *)
(* as sequences of character codes (ASCII), so that slicing, substring     *)
(* search, upper(), strip() and the string order are computed, not assumed.*)
(***************************************************************************)
EXTENDS Integers, Sequences, FiniteSets, TLC

VARIABLES
    \* ---- get_combined_intelligence (SpecFeed)
    portfolio_tickers,  \* argument: st.session_state['portfolio'] at the call
    portfolio_ciks,     \* argument: dict ticker -> cik, as a sequence of pairs in insertion order
    sec,                \* what feedparser.parse answered for each scanned ticker
    feed_data,          \* the local list feed_data at the return statement
    intel_df,           \* the returned frame: a sequence of rows (empty frame = << >>)
    fpc,                \* position of the feed pass: "prep", "feed", "done"
    \* ---- sidebar (SpecStore)
    portfolio,          \* st.session_state['portfolio'] (a list of tickers)
    has_session,        \* 'portfolio' in st.session_state
    file,               \* portfolio.json: absent, corrupt, or a list
    add_text,           \* the text held by the "Add Ticker" widget (kept across reruns)
    clicked,            \* the delete button pressed in the event that started this run
    spc,                \* position of the script run
    wrote,              \* a write of portfolio.json was attempted in this session
    ops,                \* number of user events so far (bounded)
    \* ---- valuation block (SpecVal)
    info,               \* i = yf.Ticker(sel).info
    val,                \* what the block computed and displayed
    vpc,
    \* ---- earnings date (SpecEarn)
    sel,                \* the selected ticker
    calendar,           \* what the calendar source answered
    earn,               \* the resolved date and its confidence label
    epc

feedVars == <<portfolio_tickers, portfolio_ciks, sec, feed_data, intel_df, fpc>>
storeVars == <<portfolio, has_session, file, add_text, clicked, spc, wrote, ops>>
valVars == <<info, val, vpc>>
earnVars == <<sel, calendar, earn, epc>>
vars == <<feedVars, storeVars, valVars, earnVars>>

(***************************************************************************)
(* Python strings as sequences of character codes                          *)
(***************************************************************************)

\* s[:n]
Take(s, n) == SubSeq(s, 1, IF Len(s) < n THEN Len(s) ELSE n)

\* Python's order on str: lexicographic on the code points, a proper prefix first
RECURSIVE StrLT(_, _)
StrLT(a, b) ==
    IF a = << >> THEN b # << >>
    ELSE IF b = << >> THEN FALSE
    ELSE IF Head(a) # Head(b) THEN Head(a) < Head(b)
    ELSE StrLT(Tail(a), Tail(b))

\* pat in s
Contains(s, pat) ==
    \E k \in 0..(Len(s) - Len(pat)) : SubSeq(s, k + 1, k + Len(pat)) = pat

\* the two decimal digits of n
TwoDigits(n) == <<48 + (n \div 10), 48 + (n % 10)>>

\* "2026-MM-DD"
IsoDate(month, day) == <<50, 48, 50, 54, 45>> \o TwoDigits(month) \o <<45>> \o TwoDigits(day)

(***************************************************************************)
(* 4. DATA SOURCES                                                         *)
(***************************************************************************)

WhaleRow(type, ticker, name, move, details, date) ==
    [Type |-> type, Ticker |-> ticker, Name |-> name, Move |-> move,
     Details |-> details, Date |-> date]

\* get_global_whale_data(): the static table, in the order of the source
get_global_whale_data ==
    << WhaleRow("WHALE", "PLTR", "Scion (Michael Burry)", "BIG SHORT", "Bought Puts on 5M shares", IsoDate(2, 14)),
       WhaleRow("WHALE", "AMZN", "Altimeter (Brad Gerstner)", "ADD", "+$400M Cloud/AI Bet", IsoDate(2, 14)),
       WhaleRow("WHALE", "DPZ", "Berkshire (Buffett)", "NEW BUY", "New Stake in Domino's", IsoDate(2, 14)),
       WhaleRow("WHALE", "GS", "Duquesne (Druckenmiller)", "NEW BUY", "Initiated Position", IsoDate(2, 14)),
       WhaleRow("WHALE", "CMG", "Third Point (Dan Loeb)", "NEW BUY", "$175M New Stake", IsoDate(2, 14)),
       WhaleRow("WHALE", "META", "Pershing Square (Ackman)", "NEW BUY", "$2.0B Stake Initiation", IsoDate(2, 11)),
       WhaleRow("POL", "PLTR", "Nancy Pelosi", "HOLD", "Maintaining Stake", IsoDate(1, 22)),
       WhaleRow("WHALE", "SOFI", "ARK Invest (Wood)", "BUY", "2.4M shares Add", IsoDate(2, 17)),
       WhaleRow("WHALE", "SNOW", "Altimeter (Brad Gerstner)", "ADD", "Top holding maintenance", IsoDate(2, 14)),
       WhaleRow("WHALE", "OPEN", "Lennar Corp", "INSIDER BUY", "13D/A Filing (Strategic)", IsoDate(2, 10)) >>

\* the filing types kept by the live scan: '13D', '13G', 'Form 4', '8-K'
SignificantForms ==
    { <<49, 51, 68>>, <<49, 51, 71>>, <<70, 111, 114, 109, 32, 52>>, <<56, 45, 75>> }

\* any(x in entry.title for x in [...])
Qualifies(title) == \E x \in SignificantForms : Contains(title, x)

\* entry.updated[:10]
DatePrefixLen == 10

\* head(15)
DisplayLimit == 15

\* the dict appended for one qualifying feed entry
SecRecord(ticker, entry) ==
    [Source |-> <<"BELL", ticker>>,
     Description |-> [title |-> entry.title, parts |-> << >>],
     Date |-> Take(entry.updated, DatePrefixLen),
     Type |-> "SEC LIVE",
     Link |-> entry.link]

\* the dict appended for one whale row that matches the portfolio
WhaleRecord(row) ==
    [Source |-> <<row.Type, row.Ticker>>,
     Description |-> [title |-> << >>, parts |-> <<row.Name, row.Move, row.Details>>],
     Date |-> row.Date,
     Type |-> "WHALE ALERT",
     Link |-> <<35>>]

\* The inner loop over feed.entries of one ticker, from entry k, inside the try:
\* an entry without the attribute the dict needs raises, which ends this
\* ticker's loop; what was appended before stays in feed_data.
RECURSIVE ScanEntries(_, _, _, _)
ScanEntries(ticker, entries, k, acc) ==
    IF k > Len(entries) THEN acc
    ELSE IF ~Qualifies(entries[k].title) THEN ScanEntries(ticker, entries, k + 1, acc)
    ELSE IF ~entries[k].has_updated THEN acc
    ELSE ScanEntries(ticker, entries, k + 1, Append(acc, SecRecord(ticker, entries[k])))

\* One iteration of the scan: "if not cik: continue", then try: parse, loop; except: pass
ScanTicker(ticker, cik, resps, acc) ==
    IF cik = 0 THEN acc
    ELSE IF resps[ticker].raises THEN acc
    ELSE ScanEntries(ticker, resps[ticker].entries, 1, acc)

\* the iteration of one ticker ended in the except clause
TickerFailed(resp) ==
    \/ resp.raises
    \/ \E k \in DOMAIN resp.entries :
          Qualifies(resp.entries[k].title) /\ ~resp.entries[k].has_updated

\* A variant of the scan in which the try encloses the whole for loop: the
\* first failure ends the scan of every later ticker as well.
RECURSIVE LiveSecScan_TryAroundLoop(_, _, _, _)
LiveSecScan_TryAroundLoop(items, resps, k, acc) ==
    IF k > Len(items) THEN acc
    ELSE IF items[k][2] # 0 /\ TickerFailed(resps[items[k][1]])
         THEN ScanTicker(items[k][1], items[k][2], resps, acc)
    ELSE LiveSecScan_TryAroundLoop(items, resps, k + 1,
             ScanTicker(items[k][1], items[k][2], resps, acc))

\* 1. LIVE SEC SCAN: for ticker, cik in portfolio_ciks.items()
RECURSIVE LiveSecScan(_, _, _, _)
LiveSecScan(items, resps, k, acc) ==
    IF k > Len(items) THEN acc
    ELSE LiveSecScan(items, resps, k + 1,
             ScanTicker(items[k][1], items[k][2], resps, acc))

\* elements of a list, as a set: the "in" of a list, and isin
Elems(list) == { list[k] : k \in DOMAIN list }

RECURSIVE SelectRows(_, _, _)
SelectRows(rows, tickers, k) ==
    IF k > Len(rows) THEN << >>
    ELSE (IF rows[k].Ticker \in tickers THEN <<rows[k]>> ELSE << >>)
         \o SelectRows(rows, tickers, k + 1)

RECURSIVE SelectRowsOrPolitical(_, _, _)
SelectRowsOrPolitical(rows, tickers, k) ==
    IF k > Len(rows) THEN << >>
    ELSE (IF rows[k].Ticker \in tickers \/ rows[k].Type = "POL" THEN <<rows[k]>> ELSE << >>)
         \o SelectRowsOrPolitical(rows, tickers, k + 1)

\* A variant of the whale filter that is applied to the whale rows only: the
\* political rows of the table pass whatever their ticker
WhaleHits_PoliticalUnfiltered(whale_df, tickers) ==
    SelectRowsOrPolitical(whale_df, Elems(tickers), 1)

\* whale_df[whale_df['Ticker'].isin(portfolio_tickers)]
WhaleHits(whale_df, tickers) == SelectRows(whale_df, Elems(tickers), 1)

\* 2. WHALE MEMORY: the loop over my_whale_hits.iterrows()
WhaleMemory(acc, tickers) ==
    LET hits == WhaleHits(get_global_whale_data, tickers)
    IN  acc \o [k \in DOMAIN hits |-> WhaleRecord(hits[k])]

\* pd.DataFrame(feed_data): the rows with their index labels 0..n-1
DataFrame(data) ==
    [k \in DOMAIN data |-> [index |-> k - 1, row |-> data[k]]]

RemoveAt(s, k) == SubSeq(s, 1, k - 1) \o SubSeq(s, k + 1, Len(s))

\* sort_values(by="Date", ascending=False) with the default kind='quicksort':
\* pandas documents only 'mergesort' and 'stable' as stable, so the order of rows
\* with equal Date is whatever the installed sort produces.  Every ordering that
\* is non-increasing in Date is an outcome.
RECURSIVE sort_values_desc(_)
sort_values_desc(df) ==
    IF df = << >> THEN { << >> }
    ELSE LET first == { k \in DOMAIN df :
                          \A j \in DOMAIN df : ~StrLT(df[k].row.Date, df[j].row.Date) }
         IN  UNION { { <<df[k]>> \o rest : rest \in sort_values_desc(RemoveAt(df, k)) }
                     : k \in first }

\* A variant of head that keeps the whole frame
head_NoLimit(df, n) == df

\* df.head(n)
head(df, n) == Take(df, n)

\* the frames get_combined_intelligence can return for the collected feed_data
Returned(data) ==
    IF data = << >> THEN { << >> }
    ELSE { head(sorted, DisplayLimit) : sorted \in sort_values_desc(DataFrame(data)) }

(***************************************************************************)
(* Inputs of the feed pass                                                 *)
(***************************************************************************)

\* longest feed the SEC endpoint serves in the model
MaxEntries == 4

\* the portfolios the pass is run on
FeedPortfolios ==
    { <<"PLTR", "AMZN", "SOFI", "BMNR">>, <<"BMNR">>, << >>, <<"OPEN", "NVDA">> }

TickerNo(t) ==
    CASE t = "PLTR" -> 1 [] t = "AMZN" -> 2 [] t = "SOFI" -> 3 [] t = "BMNR" -> 4
      [] t = "OPEN" -> 5 [] OTHER -> 6

CikOf(t) == 1000 + TickerNo(t)

\* titles of the filings of a company, newest first:
\* "8-K", "SC 13D", "10-K", "Form 4", "SC 13G/A"
FilingTitles ==
    << <<56, 45, 75>>, <<83, 67, 32, 49, 51, 68>>, <<49, 48, 45, 75>>,
       <<70, 111, 114, 109, 32, 52>>, <<83, 67, 32, 49, 51, 71, 47, 65>> >>

\* the k-th newest filing of ticker t, as a feed entry: updated is
\* "2026-02-DDT09", three days apart, companies alternating between two calendars
FeedEntry(t, k) ==
    [title |-> FilingTitles[((k - 1) % Len(FilingTitles)) + 1],
     updated |-> IsoDate(2, 20 - 3 * (k - 1) - (TickerNo(t) % 2)) \o <<84, 48, 57>>,
     has_updated |-> TRUE,
     link |-> <<CikOf(t), k>>]

\* what feedparser.parse can answer for the feed of ticker t
FeedResponses(t) ==
    { [raises |-> FALSE, entries |-> [k \in 1..n |-> FeedEntry(t, k)]] : n \in {0, MaxEntries} }
    \cup { [raises |-> TRUE, entries |-> << >>] }
    \cup { [raises |-> FALSE,
            entries |-> <<FeedEntry(t, 1), [FeedEntry(t, 2) EXCEPT !.has_updated = FALSE],
                          FeedEntry(t, 4)>>] }
    \cup { [raises |-> FALSE,
            entries |-> <<[FeedEntry(t, 1) EXCEPT !.updated = <<50, 48, 50, 54>>]>>] }

\* what yf.Ticker(t).info can give for 'cik': the lookup raises or has no
\* 'cik' key ("none"), a falsy cik (0), or the company's cik
CikOutcomes == { "none", "falsy", "cik" }

RECURSIVE BuildCiks(_, _, _)
BuildCiks(tickers, outcome, k) ==
    IF k > Len(tickers) THEN << >>
    ELSE (CASE outcome[tickers[k]] = "none" -> << >>
            [] outcome[tickers[k]] = "falsy" -> << <<tickers[k], 0>> >>
            [] OTHER -> << <<tickers[k], CikOf(tickers[k])>> >>)
         \o BuildCiks(tickers, outcome, k + 1)

FeedIdle ==
    /\ portfolio_tickers = << >> /\ portfolio_ciks = << >> /\ sec = << >>
    /\ feed_data = << >> /\ intel_df = << >> /\ fpc = "off"

StoreIdle ==
    /\ portfolio = << >> /\ has_session = FALSE /\ file = [kind |-> "absent"]
    /\ add_text = << >> /\ clicked = << >> /\ spc = "off" /\ wrote = FALSE /\ ops = 0

ValIdle == info = << >> /\ val = << >> /\ vpc = "off"

EarnIdle == sel = "" /\ calendar = << >> /\ earn = << >> /\ epc = "off"

InitFeed ==
    /\ portfolio_tickers \in FeedPortfolios
    /\ portfolio_ciks = << >> /\ sec = << >>
    /\ feed_data = << >> /\ intel_df = << >> /\ fpc = "prep"
    /\ StoreIdle /\ ValIdle /\ EarnIdle

\* 6. DATA PREP: the loop that fills portfolio_ciks
DataPrep ==
    /\ fpc = "prep"
    /\ \E outcome \in [Elems(portfolio_tickers) -> CikOutcomes] :
          portfolio_ciks' = BuildCiks(portfolio_tickers, outcome, 1)
    /\ fpc' = "feed"
    /\ UNCHANGED <<portfolio_tickers, sec, feed_data, intel_df>>
    /\ UNCHANGED <<storeVars, valVars, earnVars>>

Scanned(ciks) == { ciks[k][1] : k \in { j \in DOMAIN ciks : ciks[j][2] # 0 } }

\* get_combined_intelligence(portfolio_ciks, portfolio_tickers), the whole call
GetCombinedIntelligence ==
    /\ fpc = "feed"
    /\ \E resps \in [Scanned(portfolio_ciks) -> UNION { FeedResponses(t) : t \in Scanned(portfolio_ciks) }] :
          /\ \A t \in Scanned(portfolio_ciks) : resps[t] \in FeedResponses(t)
          /\ sec' = resps
          /\ LET data == WhaleMemory(LiveSecScan(portfolio_ciks, resps, 1, << >>),
                                     portfolio_tickers)
             IN  /\ feed_data' = data
                 /\ intel_df' \in Returned(data)
    /\ fpc' = "done"
    /\ UNCHANGED <<portfolio_tickers, portfolio_ciks>>
    /\ UNCHANGED <<storeVars, valVars, earnVars>>

NextFeed == DataPrep \/ GetCombinedIntelligence

SpecFeed == InitFeed /\ [][NextFeed]_vars

(***************************************************************************)
(* 5. SIDEBAR: the portfolio in st.session_state and in portfolio.json     *)
(*                                                                         *)
(* Tickers are sequences of character codes here, since the add box        *)
(* upper-cases and strips what the user typed.                             *)
(***************************************************************************)

\* number of user events (typing in the add box, a delete click, a refresh) in a run of the model
MaxEvents == 3

\* "META", "AMZN", "SOFI", "BMNR", "PLTR", "OPEN"
DefaultPortfolio ==
    << <<77, 69, 84, 65>>, <<65, 77, 90, 78>>, <<83, 79, 70, 73>>,
       <<66, 77, 78, 82>>, <<80, 76, 84, 82>>, <<79, 80, 69, 78>> >>

\* str.upper() on one character
UpperChar(c) == IF c >= 97 /\ c <= 122 THEN c - 32 ELSE c

\* str.upper()
Upper(s) == [k \in DOMAIN s |-> UpperChar(s[k])]

\* the characters str.strip() removes
Whitespace == {9, 10, 11, 12, 13, 32}

RECURSIVE LStrip(_)
LStrip(s) ==
    IF s # << >> /\ Head(s) \in Whitespace THEN LStrip(Tail(s)) ELSE s

RECURSIVE RStrip(_)
RStrip(s) ==
    IF s # << >> /\ s[Len(s)] \in Whitespace THEN RStrip(SubSeq(s, 1, Len(s) - 1)) ELSE s

\* str.strip()
Strip(s) == RStrip(LStrip(s))

\* new_ticker = st.sidebar.text_input("Add Ticker").upper().strip()
NewTicker(text) == Strip(Upper(text))

\* A variant of the add condition without the membership test
ShouldAdd_NoMembershipTest(new_ticker, list) == new_ticker # << >>

\* if new_ticker and new_ticker not in st.session_state['portfolio']
ShouldAdd(new_ticker, list) == new_ticker # << >> /\ new_ticker \notin Elems(list)

\* list.remove(t): drops the first occurrence
RECURSIVE ListRemove(_, _)
ListRemove(list, t) ==
    IF list = << >> THEN << >>
    ELSE IF Head(list) = t THEN Tail(list)
    ELSE <<Head(list)>> \o ListRemove(Tail(list), t)

\* what the user can type into the add box: "", " ", "pltr", " nvda "
AddTexts ==
    { << >>, <<32>>, <<112, 108, 116, 114>>, <<32, 110, 118, 100, 97, 32>> }

\* portfolio.json as an earlier session of the program left it:
\* no file, an unreadable file, or a list the program wrote: ["PLTR", "SOFI"], []
InitialFiles ==
    { [kind |-> "absent"], [kind |-> "corrupt"],
      [kind |-> "list", data |-> << <<80, 76, 84, 82>>, <<83, 79, 70, 73>> >>],
      [kind |-> "list", data |-> << >>] }

\* with open(PORTFOLIO_FILE, "w") as f: json.dump(list, f)
\* open can raise (the file is left as it was), the dump can raise after open
\* truncated the file (an unreadable file is left), or the list is written.
WriteOutcomes == { "written", "open_raises", "dump_raises" }

FileAfterWrite(outcome, list) ==
    CASE outcome = "written" -> [kind |-> "list", data |-> list]
      [] outcome = "open_raises" -> file
      [] OTHER -> [kind |-> "corrupt"]

InitStore ==
    /\ portfolio = << >> /\ has_session = FALSE
    /\ file \in InitialFiles
    /\ add_text = << >> /\ clicked = << >>
    /\ spc = "idle" /\ wrote = FALSE /\ ops = 0
    /\ FeedIdle /\ ValIdle /\ EarnIdle

\* the user submits text in the "Add Ticker" box: the script reruns
SubmitAddText ==
    /\ spc \in {"idle", "aborted"} /\ ops < MaxEvents
    /\ \E text \in AddTexts : add_text' = text
    /\ clicked' = << >> /\ spc' = "load" /\ ops' = ops + 1
    /\ UNCHANGED <<portfolio, has_session, file, wrote>>
    /\ UNCHANGED <<feedVars, valVars, earnVars>>

\* the user clicks the delete button of a ticker shown by the last run: the script reruns
ClickDelete ==
    /\ spc = "idle" /\ has_session /\ ops < MaxEvents
    /\ \E t \in Elems(portfolio) : clicked' = t
    /\ spc' = "load" /\ ops' = ops + 1
    /\ UNCHANGED <<portfolio, has_session, file, add_text, wrote>>
    /\ UNCHANGED <<feedVars, valVars, earnVars>>

\* the 60 s autorefresh, or the first visit: the script reruns with the widgets as they are
Refresh ==
    /\ spc \in {"idle", "aborted"} /\ ops < MaxEvents
    /\ clicked' = << >> /\ spc' = "load" /\ ops' = ops + 1
    /\ UNCHANGED <<portfolio, has_session, file, add_text, wrote>>
    /\ UNCHANGED <<feedVars, valVars, earnVars>>

\* if 'portfolio' not in st.session_state: load portfolio.json or the default list
LoadPortfolio ==
    /\ spc = "load"
    /\ IF has_session THEN portfolio' = portfolio
       ELSE portfolio' = (IF file.kind = "list" THEN file.data ELSE DefaultPortfolio)
    /\ has_session' = TRUE
    /\ spc' = "add"
    /\ UNCHANGED <<file, add_text, clicked, wrote, ops>>
    /\ UNCHANGED <<feedVars, valVars, earnVars>>

\* the add box: append and write the file, when the text names a new ticker
AddTicker ==
    /\ spc = "add"
    /\ IF ShouldAdd(NewTicker(add_text), portfolio)
       THEN /\ portfolio' = Append(portfolio, NewTicker(add_text))
            /\ wrote' = TRUE
            /\ \E outcome \in WriteOutcomes :
                  /\ file' = FileAfterWrite(outcome, portfolio')
                  /\ spc' = (IF outcome = "written" THEN "remove" ELSE "aborted")
       ELSE /\ spc' = "remove"
            /\ UNCHANGED <<portfolio, file, wrote>>
    /\ UNCHANGED <<has_session, add_text, clicked, ops>>
    /\ UNCHANGED <<feedVars, valVars, earnVars>>

\* the loop over the portfolio that draws the tickers and their delete buttons:
\* the clicked one is removed, the file written, and st.rerun() restarts the script
RemoveTicker ==
    /\ spc = "remove"
    /\ IF clicked \in Elems(portfolio)
       THEN /\ portfolio' = ListRemove(portfolio, clicked)
            /\ wrote' = TRUE
            /\ clicked' = << >>
            /\ \E outcome \in WriteOutcomes :
                  /\ file' = FileAfterWrite(outcome, portfolio')
                  /\ spc' = (IF outcome = "written" THEN "load" ELSE "aborted")
       ELSE /\ spc' = "pass"
            /\ UNCHANGED <<portfolio, file, wrote, clicked>>
    /\ UNCHANGED <<has_session, add_text, ops>>
    /\ UNCHANGED <<feedVars, valVars, earnVars>>

\* 6./7. data prep and the combined feed call read the portfolio; the run ends
AggregationPass ==
    /\ spc = "pass"
    /\ spc' = "idle"
    /\ UNCHANGED <<portfolio, has_session, file, add_text, clicked, wrote, ops>>
    /\ UNCHANGED <<feedVars, valVars, earnVars>>

NextStore ==
    \/ SubmitAddText \/ ClickDelete \/ Refresh
    \/ LoadPortfolio \/ AddTicker \/ RemoveTicker \/ AggregationPass

SpecStore == InitStore /\ [][NextStore]_vars

NoDuplicates(list) ==
    \A a, b \in DOMAIN list : a # b => list[a] # list[b]

C10_PersistedBeforePass ==
    (spc = "pass" /\ wrote) => file = [kind |-> "list", data |-> portfolio]

(***************************************************************************)
(* Valuation block of the analysis ("if sel:")                             *)
(*                                                                         *)
(* A value of the info mapping is a missing key, None, a number or a       *)
(* string.  Numbers are fixed point: ratios (P/E, P/S, PEG, beta) in       *)
(* hundredths, fractions (growth, margins) in ten-thousandths, so that     *)
(* growth * 100 is the fraction in hundredths.                             *)
(***************************************************************************)

Missing == [k |-> "missing"]
None == [k |-> "null"]
Num(v) == [k |-> "num", v |-> v]
Str(t) == [k |-> "str", s |-> t]

\* the inline "N/A" marker, and the text of a value that was never assigned
NA == [k |-> "na"]
Unset == [k |-> "unset"]

\* dict.get(key, default): the default is used only when the key is missing;
\* a key that is present with the value None gives None
Get(i, key, default) == IF i[key] = Missing THEN default ELSE i[key]

\* truth value of a Python object: None, 0 and "" are false
Truthy(x) == (x.k = "num" /\ x.v # 0) \/ (x.k = "str" /\ x.s # "")

\* n / d rounded to the nearest integer, ties to the even one (Python's round)
RoundDiv(n, d) ==
    LET nn == IF d < 0 THEN 0 - n ELSE n
        dd == IF d < 0 THEN 0 - d ELSE d
        q == nn \div dd
        r == nn - q * dd
    IN  IF 2 * r < dd THEN q
        ELSE IF 2 * r > dd THEN q + 1
        ELSE IF q % 2 = 0 THEN q ELSE q + 1

\* 3. SECTOR BENCHMARKS (hundredths)
SECTOR_BENCHMARKS ==
    [sector \in {"Technology", "Financial Services", "Healthcare",
                 "Consumer Cyclical", "Communication Services"} |->
        CASE sector = "Technology" -> [PE |-> 3000, PS |-> 700, Beta |-> 120, Growth |-> 1400]
          [] sector = "Financial Services" -> [PE |-> 1500, PS |-> 300, Beta |-> 110, Growth |-> 500]
          [] sector = "Healthcare" -> [PE |-> 2500, PS |-> 500, Beta |-> 80, Growth |-> 800]
          [] sector = "Consumer Cyclical" -> [PE |-> 2500, PS |-> 250, Beta |-> 120, Growth |-> 700]
          [] OTHER -> [PE |-> 2000, PS |-> 400, Beta |-> 100, Growth |-> 900]]

\* growth = i.get('earningsGrowth', i.get('earningsQuarterlyGrowth', i.get('forwardEpsGrowth')))
GrowthLookup(i) ==
    Get(i, "earningsGrowth",
        Get(i, "earningsQuarterlyGrowth",
            Get(i, "forwardEpsGrowth", None)))

\* round(pe / (growth * 100), 2), in hundredths
DerivedPeg(pe, growth) == Num(RoundDiv(100 * pe.v, growth.v))

\* bench = next((k for k in SECTOR_BENCHMARKS if k == sector), None)
Bench(sector) ==
    IF sector.k = "str" /\ sector.s \in DOMAIN SECTOR_BENCHMARKS THEN sector ELSE None

\* The block from "pe, ps, peg = ..." to the benchmark metrics.  A TypeError
\* ends the script: raised names the line, and what follows it is never shown.
Valuation(i) ==
    LET pe == Get(i, "trailingPE", None)
        ps == Get(i, "priceToSalesTrailing12Months", None)
        peg0 == Get(i, "pegRatio", None)
        fallback == ~Truthy(peg0) /\ Truthy(pe)
        growth == IF fallback THEN GrowthLookup(i) ELSE Unset
        peg == IF fallback /\ Truthy(growth) THEN DerivedPeg(pe, growth) ELSE peg0
        rev_growth == Get(i, "revenueGrowth", Num(0))
        ebitda_margin == Get(i, "ebitdaMargins", Num(0))
        raises185 == rev_growth = None \/ ebitda_margin = None
        rule_of_40 == rev_growth.v + ebitda_margin.v
        sector == Get(i, "sector", Str("Unknown"))
        bench == Bench(sector)
        val_pe == IF Truthy(bench) /\ Truthy(pe)
                  THEN Num(RoundDiv((pe.v - SECTOR_BENCHMARKS[bench.s].PE) * 100,
                                    SECTOR_BENCHMARKS[bench.s].PE))
                  ELSE NA
        beta == Get(i, "beta", Num(100))
        raises241 == beta = None
    IN  IF raises185
        THEN [raised |-> 185, growth |-> growth, peg |-> peg,
              rule_of_40 |-> Unset, rule_label |-> "", val_pe |-> Unset,
              pe_metric |-> Unset, ps_metric |-> Unset, peg_metric |-> Unset,
              beta_metric |-> Unset, rev_metric |-> Unset]
        ELSE [raised |-> IF raises241 THEN 241 ELSE 0,
              growth |-> growth, peg |-> peg,
              rule_of_40 |-> Num(rule_of_40),
              rule_label |-> IF rule_of_40 >= 4000 THEN "Elite" ELSE "Sub-40",
              val_pe |-> val_pe,
              pe_metric |-> pe,
              ps_metric |-> ps,
              peg_metric |-> IF Truthy(peg) THEN peg ELSE NA,
              beta_metric |-> IF raises241 THEN Unset ELSE beta,
              rev_metric |-> IF raises241 THEN Unset ELSE rev_growth]

\* what the fundamentals provider can return for each optional field
InfoFields ==
    [trailingPE : {Missing, None, Num(0), Num(2000)},
     priceToSalesTrailing12Months : {Missing, Num(700)},
     pegRatio : {Missing, None, Num(0), Num(150)},
     earningsGrowth : {Missing, None, Num(0), Num(1000)},
     earningsQuarterlyGrowth : {Missing, None, Num(2500)},
     forwardEpsGrowth : {Missing, None, Num(500)},
     sector : {Missing, None, Str("Technology"), Str("Energy")},
     revenueGrowth : {Missing, None, Num(3000)},
     ebitdaMargins : {Missing, None, Num(1500)},
     beta : {Missing, None, Num(120)}]

InitVal ==
    /\ info \in InfoFields
    /\ val = << >> /\ vpc = "ready"
    /\ FeedIdle /\ StoreIdle /\ EarnIdle

\* the valuation block runs on the fetched info
AnalyzeTicker ==
    /\ vpc = "ready"
    /\ val' = Valuation(info)
    /\ vpc' = "done"
    /\ UNCHANGED info
    /\ UNCHANGED <<feedVars, storeVars, earnVars>>

NextVal == AnalyzeTicker

SpecVal == InitVal /\ [][NextVal]_vars

Absent(x) == x = Missing \/ x = None

\* the growth estimate of the specification: the first of annual, quarterly
\* and forward EPS growth that carries a value
FirstPresentGrowth(i) ==
    IF ~Absent(i.earningsGrowth) THEN i.earningsGrowth
    ELSE IF ~Absent(i.earningsQuarterlyGrowth) THEN i.earningsQuarterlyGrowth
    ELSE IF ~Absent(i.forwardEpsGrowth) THEN i.forwardEpsGrowth
    ELSE None

\* the condition under which the claim has PEG derived
DeriveCondition(i) ==
    /\ Absent(i.pegRatio) /\ ~Absent(i.trailingPE)
    /\ FirstPresentGrowth(i) # None /\ FirstPresentGrowth(i).v # 0

\* C4: PEG is round(pe / (growth * 100), 2) exactly when the upstream PEG is
\* absent, trailing P/E is present and the growth estimate is present and
\* non-zero; with a zero or absent growth estimate PEG stays unknown.
\* Stated for inputs whose P/E and upstream PEG are not the number 0, where
\* "absent" and "present" cannot be read in two ways.
C4_PegFallback ==
    (vpc = "done" /\ info.trailingPE # Num(0) /\ info.pegRatio # Num(0)) =>
        /\ DeriveCondition(info)
             => val.peg = DerivedPeg(info.trailingPE, FirstPresentGrowth(info))
        /\ ~DeriveCondition(info) => val.peg = Get(info, "pegRatio", None)
        /\ (Absent(info.pegRatio) /\ ~DeriveCondition(info)) => val.peg = None

\* C5: whatever fields are numbers, missing or null, the block does not raise
\* and the metrics it cannot compute show N/A.
C5_NoInputIsFatal ==
    vpc = "done" =>
        /\ val.raised = 0
        /\ ~Truthy(val.peg) => val.peg_metric = NA
        /\ (Absent(info.trailingPE) \/ Bench(Get(info, "sector", None)) = None)
             => val.val_pe = NA

\* C9: the growth estimate read for the fallback is the first present value
\* in the order annual, quarterly, forward; with no annual value and a non-zero
\* quarterly value PEG is derived from the quarterly value.
C9_GrowthPriority ==
    vpc = "done" =>
        /\ val.growth # Unset => val.growth = FirstPresentGrowth(info)
        /\ (/\ Absent(info.earningsGrowth)
            /\ ~Absent(info.earningsQuarterlyGrowth)
            /\ info.earningsQuarterlyGrowth.v # 0
            /\ Absent(info.pegRatio)
            /\ Truthy(Get(info, "trailingPE", None)))
           => val.peg = DerivedPeg(info.trailingPE, info.earningsQuarterlyGrowth)

(***************************************************************************)
(* Earnings date ("Forward Guidance")                                      *)
(*                                                                         *)
(* The source ends inside the HARDCODED_DATES table; the resolution that   *)
(* uses the table follows the priority order of the design document:       *)
(* override table, next future calendar date, last report + 90 days, N/A.  *)
(***************************************************************************)

\* largest number of dates the calendar source returns in the model
MaxCalendarDates == 2

\* the day the script runs, as a day number
Today == 100

\* the projection offset of the design document, in days
ProjectionDays == 90

\* A variant of the table without the SOFI entry
HARDCODED_DATES_WithoutSOFI ==
    [t \in {"PLTR", "BMNR"} |->
        CASE t = "PLTR" -> "05/04/2026" [] OTHER -> "(cut off in the source)"]

\* HARDCODED_DATES: the value of the BMNR entry is cut off in the source
HARDCODED_DATES ==
    [t \in {"PLTR", "SOFI", "BMNR"} |->
        CASE t = "PLTR" -> "05/04/2026"
          [] t = "SOFI" -> "04/28/2026"
          [] OTHER -> "(cut off in the source)"]

SetMax(S) == CHOOSE x \in S : \A y \in S : y <= x
SetMin(S) == CHOOSE x \in S : \A y \in S : x <= y

\* the earnings-date resolution: first tier that resolves wins; a failed
\* calendar fetch resolves nothing
ResolveEarningsDate(ticker, cal) ==
    LET dates == IF cal.fails THEN {} ELSE cal.dates
        future == { d \in dates : d >= Today }
        past == { d \in dates : d < Today }
    IN  IF ticker \in DOMAIN HARDCODED_DATES
        THEN [date |-> [text |-> HARDCODED_DATES[ticker], day |-> 0], confidence |-> "HARDCODED"]
        ELSE IF future # {}
        THEN [date |-> [text |-> "", day |-> SetMin(future)], confidence |-> "CONFIRMED"]
        ELSE IF past # {}
        THEN [date |-> [text |-> "", day |-> SetMax(past) + ProjectionDays],
              confidence |-> "PROJECTED"]
        ELSE [date |-> [text |-> "N/A", day |-> 0], confidence |-> "UNKNOWN"]

\* the tickers selected in the model, and the dates the calendar can hold
SelectableTickers == {"PLTR", "SOFI", "BMNR", "AMZN", "NVDA"}

CalendarDays == {Today - 120, Today - 30, Today, Today + 14, Today + 75}

CalendarAnswers ==
    { [fails |-> FALSE, dates |-> D] :
        D \in { X \in SUBSET CalendarDays : Cardinality(X) <= MaxCalendarDates } }
    \cup { [fails |-> TRUE, dates |-> {}] }

InitEarn ==
    /\ sel \in SelectableTickers
    /\ calendar \in CalendarAnswers
    /\ earn = << >> /\ epc = "ready"
    /\ FeedIdle /\ StoreIdle /\ ValIdle

ShowForwardGuidance ==
    /\ epc = "ready"
    /\ earn' = ResolveEarningsDate(sel, calendar)
    /\ epc' = "done"
    /\ UNCHANGED <<sel, calendar>>
    /\ UNCHANGED <<feedVars, storeVars, valVars>>

NextEarn == ShowForwardGuidance

SpecEarn == InitEarn /\ [][NextEarn]_vars

DateOf(k) == intel_df[k].row.Date

\* C1: the returned frame is ordered by Date non-increasing (Python's order on
\* the Date strings), holds at most 15 rows, and is the empty frame when
\* nothing was collected.
C1_SortedAndCapped ==
    fpc = "done" =>
        /\ Len(intel_df) <= DisplayLimit
        /\ \A k \in 1..(Len(intel_df) - 1) : ~StrLT(DateOf(k), DateOf(k + 1))
        /\ (feed_data = << >> => intel_df = << >>)
        /\ (feed_data # << >> => intel_df # << >>)

\* C1 witness: more than 15 records were collected and 15 are returned
C1_Witness ==
    fpc = "done" /\ Len(feed_data) > DisplayLimit /\ Len(intel_df) = DisplayLimit

\* C2: no whale or political row of the result has a ticker outside the
\* portfolio ticker list passed to the call.
C2_WhaleRowsInPortfolio ==
    fpc = "done" =>
        \A k \in DOMAIN intel_df :
            intel_df[k].row.Type = "WHALE ALERT" =>
                intel_df[k].row.Source[2] \in Elems(portfolio_tickers)

\* C2 witness: a result with a whale row, for a portfolio that lacks tickers of the table
C2_Witness ==
    /\ fpc = "done"
    /\ \E k \in DOMAIN intel_df : intel_df[k].row.Type = "WHALE ALERT"
    /\ \E j \in DOMAIN get_global_whale_data :
          get_global_whale_data[j].Ticker \notin Elems(portfolio_tickers)

\* the records the scan of ticker t must contribute when its iteration does not fail
QualifyingRecords(t) ==
    { SecRecord(t, sec[t].entries[k]) :
        k \in { j \in DOMAIN sec[t].entries : Qualifies(sec[t].entries[j].title) } }

PortfolioWhaleRecords ==
    { WhaleRecord(get_global_whale_data[k]) :
        k \in { j \in DOMAIN get_global_whale_data :
                  get_global_whale_data[j].Ticker \in Elems(portfolio_tickers) } }

\* C3: the pass completes, and feed_data (before sorting and truncation) holds
\* every qualifying filing of every scanned ticker whose iteration did not fail
\* and every whale row of the portfolio, whichever tickers failed.
C3_FailureIsolated ==
    fpc = "done" =>
        /\ \A t \in Scanned(portfolio_ciks) :
              ~TickerFailed(sec[t]) => QualifyingRecords(t) \subseteq Elems(feed_data)
        /\ PortfolioWhaleRecords \subseteq Elems(feed_data)

\* C3 witness: the first scanned ticker failed, a later one succeeded with
\* qualifying filings, and the portfolio has whale rows
C3_Witness ==
    /\ fpc = "done"
    /\ \E a, b \in DOMAIN portfolio_ciks :
          /\ a < b
          /\ portfolio_ciks[a][2] # 0 /\ portfolio_ciks[b][2] # 0
          /\ TickerFailed(sec[portfolio_ciks[a][1]])
          /\ ~TickerFailed(sec[portfolio_ciks[b][1]])
          /\ QualifyingRecords(portfolio_ciks[b][1]) # {}
    /\ PortfolioWhaleRecords # {}

\* C8: rows of the result with equal Date are in collection order (their index
\* labels increase), and a row cut by the truncation is not earlier in
\* collection order than a returned row of the same Date.
C8_TiesKeepCollectionOrder ==
    fpc = "done" =>
        /\ \A k \in 1..(Len(intel_df) - 1) :
              DateOf(k) = DateOf(k + 1) => intel_df[k].index < intel_df[k + 1].index
        /\ \A k \in DOMAIN intel_df : \A j \in DOMAIN feed_data :
              (/\ feed_data[j].Date = DateOf(k)
               /\ \A m \in DOMAIN intel_df : intel_df[m].index # j - 1)
              => intel_df[k].index < j - 1

====
